---------------------------- MODULE Spec2Model ----------------------------
(***************************************************************************)
(* Model of analysis/idw_interpolation.py: the inverse-distance-weighting  *)
(* estimate PredictPollutant and the leave-one-out run ParityPlot.         *)
(*                                                                         *)
(* The program computes in binary floating point.  The numbers of the      *)
(* model are binary floating-point numbers too: a sign, a mantissa of      *)
(* PrecBits bits and an exponent, rounded to nearest, ties to even, with   *)
(* the IEEE 754 special values infinity and NaN.  The exponent range is    *)
(* not bounded, so the model has neither overflow nor underflow.           *)
(***************************************************************************)
EXTENDS Integers, Sequences, FiniteSets, Bags, TLC

\* Mantissa width of the model's floating-point numbers (53 in the program).
PrecBits == 7

\* Coordinates of the grid, measurements answered for one coordinate.
MaxCoordinates == 2
MaxMeasurements == 2

\* Longest dataset, largest n_sensors.
MaxRows == 3
MaxSensors == 2

\* The estimator alone: most observations, largest idw_power.
MaxObs == 2
MaxPower == 2

\* idw_power=2, the default of PredictPollutant and of ParityPlot.
DefaultPower == 2

---------------------------------------------------------------------------
(* Floating point.  A finite number is m * 2^e with m = 0, or             *)
(* 2^(PrecBits-1) <= |m| < 2^PrecBits.  k is "fin", "inf" (m is the sign) *)
(* or "nan".                                                               *)

Abs(n) == IF n < 0 THEN -n ELSE n
Sgn(n) == IF n < 0 THEN -1 ELSE IF n > 0 THEN 1 ELSE 0
Min2(a, b) == IF a <= b THEN a ELSE b
Max2(a, b) == IF a >= b THEN a ELSE b

Fin(m, e) == [k |-> "fin", m |-> m, e |-> e]
Zero == Fin(0, 0)
Inf(s) == [k |-> "inf", m |-> s, e |-> 0]
NaN == [k |-> "nan", m |-> 0, e |-> 0]

IsNaN(x) == x.k = "nan"
IsInf(x) == x.k = "inf"
IsFinite(x) == x.k = "fin"

MantLo == 2 ^ (PrecBits - 1)
MantHi == 2 ^ PrecBits

\* s * (a / d) * 2^e for MantLo <= a / d < MantHi, to the nearest mantissa,
\* ties to even.
Nearest(s, a, d, e) ==
    LET q == a \div d
        r == a % d
        up == (2 * r > d) \/ (2 * r = d /\ q % 2 = 1)
        m == IF up THEN q + 1 ELSE q
    IN  IF m = MantHi THEN Fin(s * MantLo, e + 1) ELSE Fin(s * m, e)

\* a / d > 0 brought to MantLo <= a / d < MantHi, e counting the halvings.
RECURSIVE Normalise(_, _, _, _)
Normalise(s, a, d, e) ==
    IF a >= MantHi * d THEN Normalise(s, a, 2 * d, e + 1)
    ELSE IF a < MantLo * d THEN Normalise(s, 2 * a, d, e - 1)
    ELSE Nearest(s, a, d, e)

\* The floating-point number nearest to (num / den) * 2^e0, ties to even.
Round(num, den, e0) ==
    IF num = 0 THEN Zero ELSE Normalise(Sgn(num), Abs(num), den, e0)

FromInt(n) == Round(n, 1, 0)

FNeg(x) == [x EXCEPT !.m = -x.m]

FMul(x, y) ==
    IF IsNaN(x) \/ IsNaN(y) THEN NaN
    ELSE IF IsInf(x) \/ IsInf(y)
         THEN IF x.m = 0 \/ y.m = 0 THEN NaN ELSE Inf(Sgn(x.m) * Sgn(y.m))
    ELSE Round(x.m * y.m, 1, x.e + y.e)

\* numpy's true division: x / 0 is an infinity (0 / 0 is NaN), not an error.
FDiv(x, y) ==
    IF IsNaN(x) \/ IsNaN(y) THEN NaN
    ELSE IF IsInf(x) THEN (IF IsInf(y) THEN NaN
                           ELSE Inf(Sgn(x.m) * (IF y.m < 0 THEN -1 ELSE 1)))
    ELSE IF IsInf(y) THEN Zero
    ELSE IF y.m = 0 THEN (IF x.m = 0 THEN NaN ELSE Inf(Sgn(x.m)))
    ELSE Round(Sgn(y.m) * x.m, Abs(y.m), x.e - y.e)

FAdd(x, y) ==
    IF IsNaN(x) \/ IsNaN(y) THEN NaN
    ELSE IF IsInf(x) THEN (IF IsInf(y) /\ y.m # x.m THEN NaN ELSE x)
    ELSE IF IsInf(y) THEN y
    ELSE IF x.m = 0 THEN y
    ELSE IF y.m = 0 THEN x
    ELSE IF x.e - y.e > PrecBits + 2 THEN x
    ELSE IF y.e - x.e > PrecBits + 2 THEN y
    ELSE LET e == Min2(x.e, y.e)
         IN  Round(x.m * 2 ^ (x.e - e) + y.m * 2 ^ (y.e - e), 1, e)

FSub(x, y) == FAdd(x, FNeg(y))

\* x ** p for an integer p >= 1, correctly rounded.
FPow(x, p) ==
    IF IsNaN(x) THEN NaN
    ELSE IF IsInf(x) THEN Inf(IF x.m < 0 /\ p % 2 = 1 THEN -1 ELSE 1)
    ELSE Round(x.m ^ p, 1, x.e * p)

\* x < y; every comparison with NaN is false.
FLess(x, y) ==
    IF IsNaN(x) \/ IsNaN(y) THEN FALSE
    ELSE IF IsInf(x) THEN x.m < 0 /\ ~(IsInf(y) /\ y.m < 0)
    ELSE IF IsInf(y) THEN y.m > 0
    ELSE IF Sgn(x.m) # Sgn(y.m) THEN Sgn(x.m) < Sgn(y.m)
    ELSE IF x.m = 0 THEN FALSE
    ELSE IF x.m > 0 THEN x.e < y.e \/ (x.e = y.e /\ x.m < y.m)
    ELSE x.e > y.e \/ (x.e = y.e /\ x.m < y.m)

FLessEq(x, y) == ~IsNaN(x) /\ ~IsNaN(y) /\ ~FLess(y, x)

---------------------------------------------------------------------------
(* The dataset: a DataFrame, modelled as the sequence of its rows.  idx is *)
(* the row's index label; labels need not be unique.                       *)

Row(idx, key, lon, v) ==
    [idx |-> idx, parameter |-> key.parameter, year |-> key.year,
     month |-> key.month, day |-> key.day, hour |-> key.hour,
     latitude |-> 0, longitude |-> lon, value |-> FromInt(v)]

\* Faulty variant of the filter: the hour is not compared.
RowMatches_NoHour(row, pollutant, year, month, day, hour) ==
    /\ row.parameter = pollutant
    /\ row.year = year
    /\ row.month = month
    /\ row.day = day

\* df[(df['parameter'] == pollutant) & (df['year'] == year) & ...]
RowMatches(row, pollutant, year, month, day, hour) ==
    /\ row.parameter = pollutant
    /\ row.year = year
    /\ row.month = month
    /\ row.day = day
    /\ row.hour = hour

RECURSIVE FilterRows(_, _, _, _, _, _)
FilterRows(df, pollutant, year, month, day, hour) ==
    IF df = <<>> THEN <<>>
    ELSE LET rest == FilterRows(Tail(df), pollutant, year, month, day, hour)
         IN  IF RowMatches(Head(df), pollutant, year, month, day, hour)
             THEN <<Head(df)>> \o rest
             ELSE rest

\* geodesic(a, b).km for two points of the equator, a and b being
\* (latitude, longitude) pairs one kilometre of arc apart per unit.
Geodesic(a, b) == FromInt(Abs(a[1] - b[1]) + Abs(a[2] - b[2]))

compute_distance(target_location, row) ==
    Geodesic(target_location, <<row.latitude, row.longitude>>)

\* target_df['distance_km'] = target_df.apply(compute_distance, axis=1)
WithDistance(target_df, target_location) ==
    [i \in 1..Len(target_df) |->
        [distance_km |-> compute_distance(target_location, target_df[i])]
            @@ target_df[i]]

\* Faulty variant of the insertion: the row goes before its equals, so that
\* of rows at the same distance the later ones come first.
RECURSIVE InsertByDistance_BeforeEquals(_, _)
InsertByDistance_BeforeEquals(sorted, row) ==
    IF sorted = <<>> THEN <<row>>
    ELSE IF FLessEq(row.distance_km, Head(sorted).distance_km)
         THEN <<row>> \o sorted
         ELSE <<Head(sorted)>>
                  \o InsertByDistance_BeforeEquals(Tail(sorted), row)

\* Insertion of a row into rows sorted by distance_km, after its equals.
RECURSIVE InsertByDistance(_, _)
InsertByDistance(sorted, row) ==
    IF sorted = <<>> THEN <<row>>
    ELSE IF FLess(row.distance_km, Head(sorted).distance_km)
         THEN <<row>> \o sorted
         ELSE <<Head(sorted)>> \o InsertByDistance(Tail(sorted), row)

RECURSIVE SortByDistance(_)
SortByDistance(rows) ==
    IF rows = <<>> THEN <<>>
    ELSE InsertByDistance(SortByDistance(SubSeq(rows, 1, Len(rows) - 1)),
                          rows[Len(rows)])

\* Faulty variant of the selection: nothing when fewer than n rows exist.
nsmallest_AllOrNothing(rows, n) ==
    IF n <= 0 \/ n > Len(rows) THEN <<>>
    ELSE SubSeq(SortByDistance(rows), 1, n)

\* DataFrame.nsmallest(n, 'distance_km'), keep='first'.
nsmallest(rows, n) ==
    IF n <= 0 THEN <<>>
    ELSE SubSeq(SortByDistance(rows), 1, Min2(n, Len(rows)))

\* Series.sum(): NaN entries are skipped, the sum of nothing is 0.0.
RECURSIVE SeriesSum(_)
SeriesSum(xs) ==
    IF xs = <<>> THEN Zero
    ELSE LET init == SeriesSum(SubSeq(xs, 1, Len(xs) - 1))
             last == xs[Len(xs)]
         IN  IF IsNaN(last) THEN init ELSE FAdd(init, last)

One == FromInt(1)

\* Faulty variant of the weights: 1 / (d ** power + 1), which avoids the
\* division by zero and ties the estimate to the unit of distance.
idw_weights_Smoothed(rows, power) ==
    [i \in 1..Len(rows) |->
        FDiv(One, FAdd(FPow(rows[i].distance_km, power), One))]

idw_weights(rows, power) ==
    [i \in 1..Len(rows) |-> FDiv(One, FPow(rows[i].distance_km, power))]

\* Faulty variant of the estimate: the weighted sum, not normalised.
idw_prediction_NotNormalised(rows, power) ==
    LET weighted_values(weights) ==
            [i \in 1..Len(rows) |-> FMul(rows[i].value, weights[i])]
    IN  SeriesSum(weighted_values(idw_weights(rows, power)))

\* Faulty variant of the estimate: the weighted sum over the number of rows.
idw_prediction_MeanOfWeighted(rows, power) ==
    LET weighted_values(weights) ==
            [i \in 1..Len(rows) |-> FMul(rows[i].value, weights[i])]
    IN  FDiv(SeriesSum(weighted_values(idw_weights(rows, power))),
             FromInt(Len(rows)))

idw_prediction(rows, power) ==
    LET weighted_values(weights) ==
            [i \in 1..Len(rows) |-> FMul(rows[i].value, weights[i])]
        ratio(weights) ==
            FDiv(SeriesSum(weighted_values(weights)), SeriesSum(weights))
    IN  ratio(idw_weights(rows, power))

\* What pandas makes of DataFrame.apply(f, axis=1) on a frame without rows:
\* "frame" - a copy of the frame, and assigning it to the one column
\*           distance_km raises ValueError;
\* "series" - an empty Series, and the assignment succeeds.
\* Which one depends on the installed pandas and geopy, not on this code; a
\* run learns it ("unknown" before) from its first call with no matching row.
ApplyEmptyResults == {"frame", "series"}

\* The outcomes open to a call whose filtered frame is d: only a frame
\* without rows consults (and fixes) the unknown.
ApplyEmptyChoices(known, d) ==
    IF known = "unknown" /\ d = <<>> THEN ApplyEmptyResults ELSE {known}

\* PredictPollutant, lines 56-82.  raised: the call ends in an exception.
PredictPollutantWith(d, target_location, n_sensors, pollutant, year, month, day, hour, idw_power, on_empty) ==
    LET estimated(filtered, selected) ==
            [raised |-> FALSE,
             estimate |-> idw_prediction(selected, idw_power),
             nearest |-> selected, matches |-> Len(filtered)]
        target_df(filtered) == WithDistance(filtered, target_location)
        located(filtered) ==
            IF filtered = <<>> /\ on_empty = "frame"
            THEN [raised |-> TRUE, estimate |-> NaN, nearest |-> <<>>,
                  matches |-> 0]
            ELSE estimated(filtered, nsmallest(target_df(filtered), n_sensors))
    IN  located(FilterRows(d, pollutant, year, month, day, hour))

\* filtered_df.drop(index=idx): every row labelled idx goes.
RECURSIVE DropIndex(_, _)
DropIndex(rows, idx) ==
    IF rows = <<>> THEN <<>>
    ELSE IF Head(rows).idx = idx THEN DropIndex(Tail(rows), idx)
    ELSE <<Head(rows)>> \o DropIndex(Tail(rows), idx)

FAbs(x) == IF IsNaN(x) THEN NaN ELSE [x EXCEPT !.m = Abs(x.m)]

RECURSIVE ArraySum(_)
ArraySum(xs) ==
    IF xs = <<>> THEN Zero
    ELSE FAdd(ArraySum(SubSeq(xs, 1, Len(xs) - 1)), xs[Len(xs)])

\* sklearn's check of its inputs: ValueError on no samples, NaN or infinity.
MetricsInputOk(y_true, y_pred) ==
    /\ Len(y_true) > 0
    /\ \A j \in 1..Len(y_true) : IsFinite(y_true[j])
    /\ \A j \in 1..Len(y_pred) : IsFinite(y_pred[j])

mean_absolute_error(y_true, y_pred) ==
    FDiv(ArraySum([j \in 1..Len(y_true) |-> FAbs(FSub(y_pred[j], y_true[j]))]),
         FromInt(Len(y_true)))

mean_squared_error(y_true, y_pred) ==
    FDiv(ArraySum([j \in 1..Len(y_true) |-> FPow(FSub(y_true[j], y_pred[j]), 2)]),
         FromInt(Len(y_true)))

---------------------------------------------------------------------------
(* State.                                                                  *)

VARIABLES
    df,             \* the dataset handed to the entry points
    apply_empty,    \* the installed pandas: see ApplyEmptyResults
    pc,             \* "idle", "loop", "metrics", "done"; "est*" below
    call,           \* the entry point called, and the target_location and
                    \* n_sensors of the latest PredictPollutant call
    filtered_df,    \* ParityPlot's filtered_df
    i,              \* position of ParityPlot's loop in filtered_df
    true_vals,      \* ParityPlot's true_vals
    predicted_vals, \* ParityPlot's predicted_vals
    skipped,        \* labels printed as 'Skipping index ...'
    nearest,        \* nearest of the latest PredictPollutant call
    matches,        \* rows that passed the filter in that call
    outcome,        \* "none", "returned", "raised"
    retval,         \* what the finished call handed to its caller
    metrics,        \* the metrics ParityPlot computed and printed
    obs,            \* estimator alone: the selected observations
    power,          \* estimator alone: idw_power
    scale,          \* estimator alone: factor applied to every distance
    estimate,       \* estimator alone: estimate from obs
    estimate_scaled, \* estimator alone: estimate from the scaled distances
    worker_done,    \* loop in any order: positions of filtered_df processed
    worker_pairs,   \* loop in any order: bag of (true, predicted) pairs
    worker_skipped, \* loop in any order: labels skipped
    coord,          \* GetMarylandData: position in coordinate_pairs
    md_df,          \* GetMarylandData: md_df, a sequence of rows
    visited,        \* GetMarylandData: coordinates GetHourlyData was called at
    skipped_coords, \* GetMarylandData: coordinates printed as skipped
    md_outcome,     \* GetMarylandData: "none", "returned", "raised", "exited"
    measurements,   \* GetHourlyData: measurements still to be processed
    all_data,       \* GetHourlyData: all_data
    data_time,      \* GetHourlyData: data_year, data_month, data_day, data_hour
    all_from        \* for each record of all_data, the measurement it is from

vars == <<df, apply_empty, pc, call, filtered_df, i, true_vals,
          predicted_vals, skipped, nearest, matches, outcome, retval,
          metrics, obs, power, scale, estimate, estimate_scaled,
          worker_done, worker_pairs, worker_skipped, coord, md_df, visited,
          skipped_coords, md_outcome, measurements, all_data, data_time,
          all_from>>

pipeline_vars == <<df, apply_empty, call, filtered_df, i, true_vals,
                   predicted_vals, skipped, nearest, matches, outcome,
                   retval, metrics>>

estimator_vars == <<obs, power, scale, estimate, estimate_scaled>>

worker_vars == <<worker_done, worker_pairs, worker_skipped>>

collector_vars == <<coord, md_df, visited, skipped_coords, md_outcome,
                    measurements, all_data, data_time, all_from>>

\* Python's None, shaped like a number so that retval compares with one.
None == [k |-> "None", m |-> 0, e |-> 0]

NoMetrics == [computed |-> FALSE, mae |-> None, mse |-> None]
NoCall == [fn |-> "none", target_location |-> <<0, 0>>, n_sensors |-> 0]

\* The query of the docstring examples: pm25 on 2020-01-01 at 8.
QueryKey == [parameter |-> "pm25", year |-> 2020, month |-> 1, day |-> 1,
             hour |-> 8]

\* The rows of d that the filter of lines 56-62 keeps for the query.
Matching(d) ==
    FilterRows(d, QueryKey.parameter, QueryKey.year, QueryKey.month,
               QueryKey.day, QueryKey.hour)

\* Keys that miss the query in exactly one field.
OffKeys == {[QueryKey EXCEPT !.parameter = "o3"],
            [QueryKey EXCEPT !.year = 2021],
            [QueryKey EXCEPT !.month = 2],
            [QueryKey EXCEPT !.day = 2],
            [QueryKey EXCEPT !.hour = 9]}

Values == {0, 3}
Longitudes == {0, 1, 2}

\* Index labels of n rows: a RangeIndex, or (restart = 1) the labels of a
\* one-row frame concatenated with a frame of the other rows.
Labels(n, restart) ==
    [j \in 1..n |-> IF restart = 1 /\ j > 1 THEN j - 2 ELSE j - 1]

\* A dataset: rows that match the query, anywhere and with any value, and at
\* most one row (at off_at, when that is not 0) that misses it in one field.
\* Init puts that row first or last, under a RangeIndex.
Dataset(n, lons, vals, off_at, off_key, restart) ==
    [j \in 1..n |->
        IF j = off_at
        THEN Row(Labels(n, restart)[j], off_key, 0, 3)
        ELSE Row(Labels(n, restart)[j], QueryKey, lons[j], vals[j])]

Targets == {<<0, lon>> : lon \in Longitudes}

EstimatorIdle ==
    /\ obs = <<>>
    /\ power = 0
    /\ scale = Zero
    /\ estimate = None
    /\ estimate_scaled = None

\* No row processed out of order.
WorkersIdle ==
    /\ worker_done = {}
    /\ worker_pairs = EmptyBag
    /\ worker_skipped = {}

\* data_year, data_month, data_day and data_hour before their assignment.
Unbound == <<>>

CollectorIdle ==
    /\ coord = 0
    /\ md_df = <<>>
    /\ visited = <<>>
    /\ skipped_coords = {}
    /\ md_outcome = "none"
    /\ measurements = <<>>
    /\ all_data = <<>>
    /\ data_time = Unbound
    /\ all_from = <<>>

Init ==
    /\ \E n \in 0..MaxRows :
        \E lons \in [1..n -> Longitudes], vals \in [1..n -> Values],
           off_at \in {0, 1, n}, off_key \in OffKeys, restart \in {0, 1} :
            /\ off_at # 0 => restart = 0
            /\ df = Dataset(n, lons, vals, off_at, off_key, restart)
    /\ apply_empty = "unknown"
    /\ pc = "idle"
    /\ call = NoCall
    /\ filtered_df = <<>>
    /\ i = 0
    /\ true_vals = <<>>
    /\ predicted_vals = <<>>
    /\ skipped = <<>>
    /\ nearest = <<>>
    /\ matches = 0
    /\ outcome = "none"
    /\ retval = None
    /\ metrics = NoMetrics
    /\ EstimatorIdle
    /\ WorkersIdle
    /\ CollectorIdle

---------------------------------------------------------------------------
(* The single-point estimate, one call.                                    *)

\* Faulty variant of the call: the distances are written into the frame
\* that was passed in, not into a copy of its filtered rows.
CallPredictPollutant_InPlace ==
    /\ pc = "idle"
    /\ \E target_location \in Targets, n_sensors \in 1..MaxSensors,
          on_empty \in ApplyEmptyChoices(apply_empty, Matching(df)) :
        \E r \in {PredictPollutantWith(df, target_location, n_sensors,
                                       QueryKey.parameter, QueryKey.year,
                                       QueryKey.month, QueryKey.day,
                                       QueryKey.hour, DefaultPower, on_empty)} :
            /\ call' = [fn |-> "PredictPollutant",
                        target_location |-> target_location,
                        n_sensors |-> n_sensors]
            /\ apply_empty' = IF r.matches = 0 THEN on_empty ELSE apply_empty
            /\ nearest' = r.nearest
            /\ matches' = r.matches
            /\ outcome' = IF r.raised THEN "raised" ELSE "returned"
            /\ retval' = IF r.raised THEN None ELSE r.estimate
    /\ pc' = "done"
    /\ df' = WithDistance(df, call'.target_location)
    /\ UNCHANGED <<filtered_df, i, true_vals, predicted_vals, skipped,
                   metrics>>
    /\ UNCHANGED estimator_vars
    /\ UNCHANGED <<worker_vars, collector_vars>>

\* Lines 56-82: the mask and .copy() leave df alone.
CallPredictPollutant ==
    /\ pc = "idle"
    /\ \E target_location \in Targets, n_sensors \in 1..MaxSensors,
          on_empty \in ApplyEmptyChoices(apply_empty, Matching(df)) :
        \E r \in {PredictPollutantWith(df, target_location, n_sensors,
                                       QueryKey.parameter, QueryKey.year,
                                       QueryKey.month, QueryKey.day,
                                       QueryKey.hour, DefaultPower, on_empty)} :
            /\ call' = [fn |-> "PredictPollutant",
                        target_location |-> target_location,
                        n_sensors |-> n_sensors]
            /\ apply_empty' = IF r.matches = 0 THEN on_empty ELSE apply_empty
            /\ nearest' = r.nearest
            /\ matches' = r.matches
            /\ outcome' = IF r.raised THEN "raised" ELSE "returned"
            /\ retval' = IF r.raised THEN None ELSE r.estimate
    /\ pc' = "done"
    /\ UNCHANGED <<df, filtered_df, i, true_vals, predicted_vals, skipped,
                   metrics>>
    /\ UNCHANGED estimator_vars
    /\ UNCHANGED <<worker_vars, collector_vars>>

---------------------------------------------------------------------------
(* ParityPlot: the filter, one action per turn of the loop, the plot, the  *)
(* metrics.                                                                *)

\* Lines 127-138.
ParityPlotStart ==
    /\ pc = "idle"
    /\ \E n_sensors \in 1..MaxSensors :
        call' = [fn |-> "ParityPlot", target_location |-> <<0, 0>>,
                 n_sensors |-> n_sensors]
    /\ filtered_df' = FilterRows(df, QueryKey.parameter, QueryKey.year,
                                 QueryKey.month, QueryKey.day, QueryKey.hour)
    /\ i' = 1
    /\ true_vals' = <<>>
    /\ predicted_vals' = <<>>
    /\ pc' = "loop"
    /\ UNCHANGED <<df, apply_empty, skipped, nearest, matches, outcome,
                   retval, metrics>>
    /\ UNCHANGED estimator_vars
    /\ UNCHANGED <<worker_vars, collector_vars>>

\* Faulty variant of the loop body: true_val is appended before the estimate
\* is attempted, so a skipped row leaves its true value behind.
ParityPlotRow_AppendsFirst ==
    /\ pc = "loop"
    /\ i <= Len(filtered_df)
    /\ \E on_empty \in ApplyEmptyChoices(apply_empty,
                           Matching(DropIndex(filtered_df, filtered_df[i].idx))) :
       LET row == filtered_df[i]
           coords == <<row.latitude, row.longitude>>
           df_temp == DropIndex(filtered_df, row.idx)
       IN  \E r \in {PredictPollutantWith(df_temp, coords, call.n_sensors,
                                          QueryKey.parameter, QueryKey.year,
                                          QueryKey.month, QueryKey.day,
                                          QueryKey.hour, DefaultPower,
                                          on_empty)} :
           /\ call' = [call EXCEPT !.target_location = coords]
           /\ apply_empty' = IF r.matches = 0 THEN on_empty ELSE apply_empty
           /\ nearest' = r.nearest
           /\ matches' = r.matches
           /\ true_vals' = Append(true_vals, row.value)
           /\ IF r.raised
              THEN /\ skipped' = Append(skipped, row.idx)
                   /\ UNCHANGED predicted_vals
              ELSE /\ predicted_vals' = Append(predicted_vals, r.estimate)
                   /\ UNCHANGED skipped
    /\ i' = i + 1
    /\ UNCHANGED <<df, pc, filtered_df, outcome, retval, metrics>>
    /\ UNCHANGED estimator_vars
    /\ UNCHANGED <<worker_vars, collector_vars>>

\* Faulty variant of the loop body: a row whose estimate raised is not left
\* behind but tried again.
ParityPlotRow_RetriesSkipped ==
    /\ pc = "loop"
    /\ i <= Len(filtered_df)
    /\ \E on_empty \in ApplyEmptyChoices(apply_empty,
                           Matching(DropIndex(filtered_df, filtered_df[i].idx))) :
       LET row == filtered_df[i]
           coords == <<row.latitude, row.longitude>>
           df_temp == DropIndex(filtered_df, row.idx)
       IN  \E r \in {PredictPollutantWith(df_temp, coords, call.n_sensors,
                                          QueryKey.parameter, QueryKey.year,
                                          QueryKey.month, QueryKey.day,
                                          QueryKey.hour, DefaultPower,
                                          on_empty)} :
           /\ call' = [call EXCEPT !.target_location = coords]
           /\ apply_empty' = IF r.matches = 0 THEN on_empty ELSE apply_empty
           /\ nearest' = r.nearest
           /\ matches' = r.matches
           /\ IF r.raised
              THEN /\ UNCHANGED <<true_vals, predicted_vals, skipped, i>>
              ELSE /\ true_vals' = Append(true_vals, row.value)
                   /\ predicted_vals' = Append(predicted_vals, r.estimate)
                   /\ i' = i + 1
                   /\ UNCHANGED skipped
    /\ UNCHANGED <<df, pc, filtered_df, outcome, retval, metrics>>
    /\ UNCHANGED estimator_vars
    /\ UNCHANGED <<worker_vars, collector_vars>>

\* Lines 141-158, one row.
ParityPlotRow ==
    /\ pc = "loop"
    /\ i <= Len(filtered_df)
    /\ \E on_empty \in ApplyEmptyChoices(apply_empty,
                           Matching(DropIndex(filtered_df, filtered_df[i].idx))) :
       LET row == filtered_df[i]
           coords == <<row.latitude, row.longitude>>
           df_temp == DropIndex(filtered_df, row.idx)
       IN  \E r \in {PredictPollutantWith(df_temp, coords, call.n_sensors,
                                          QueryKey.parameter, QueryKey.year,
                                          QueryKey.month, QueryKey.day,
                                          QueryKey.hour, DefaultPower,
                                          on_empty)} :
           /\ call' = [call EXCEPT !.target_location = coords]
           /\ apply_empty' = IF r.matches = 0 THEN on_empty ELSE apply_empty
           /\ nearest' = r.nearest
           /\ matches' = r.matches
           /\ IF r.raised
              THEN /\ skipped' = Append(skipped, row.idx)
                   /\ UNCHANGED <<true_vals, predicted_vals>>
              ELSE /\ true_vals' = Append(true_vals, row.value)
                   /\ predicted_vals' = Append(predicted_vals, r.estimate)
                   /\ UNCHANGED skipped
    /\ i' = i + 1
    /\ UNCHANGED <<df, pc, filtered_df, outcome, retval, metrics>>
    /\ UNCHANGED estimator_vars
    /\ UNCHANGED <<worker_vars, collector_vars>>

\* Faulty variant of the figure: without pairs the function returns quietly.
ParityPlotFigure_ReturnsOnEmpty ==
    /\ pc = "loop"
    /\ i > Len(filtered_df)
    /\ IF true_vals = <<>>
       THEN /\ outcome' = "returned"
            /\ pc' = "done"
       ELSE /\ UNCHANGED outcome
            /\ pc' = "metrics"
    /\ UNCHANGED <<df, apply_empty, call, filtered_df, i, true_vals,
                   predicted_vals, skipped, nearest, matches, retval,
                   metrics>>
    /\ UNCHANGED estimator_vars
    /\ UNCHANGED <<worker_vars, collector_vars>>

\* Lines 161-169: min(true_vals) raises ValueError on an empty list.
ParityPlotFigure ==
    /\ pc = "loop"
    /\ i > Len(filtered_df)
    /\ IF true_vals = <<>>
       THEN /\ outcome' = "raised"
            /\ pc' = "done"
       ELSE /\ UNCHANGED outcome
            /\ pc' = "metrics"
    /\ UNCHANGED <<df, apply_empty, call, filtered_df, i, true_vals,
                   predicted_vals, skipped, nearest, matches, retval,
                   metrics>>
    /\ UNCHANGED estimator_vars
    /\ UNCHANGED <<worker_vars, collector_vars>>

\* Lines 172-179; the function ends without a return statement.
ParityPlotMetrics ==
    /\ pc = "metrics"
    /\ IF MetricsInputOk(true_vals, predicted_vals)
       THEN /\ metrics' = [computed |-> TRUE,
                           mae |-> mean_absolute_error(true_vals,
                                                       predicted_vals),
                           mse |-> mean_squared_error(true_vals,
                                                      predicted_vals)]
            /\ outcome' = "returned"
       ELSE /\ UNCHANGED metrics
            /\ outcome' = "raised"
    /\ retval' = None
    /\ pc' = "done"
    /\ UNCHANGED <<df, apply_empty, call, filtered_df, i, true_vals,
                   predicted_vals, skipped, nearest, matches>>
    /\ UNCHANGED estimator_vars
    /\ UNCHANGED <<worker_vars, collector_vars>>

Next ==
    \/ CallPredictPollutant
    \/ ParityPlotStart
    \/ ParityPlotRow
    \/ ParityPlotFigure
    \/ ParityPlotMetrics

Spec == Init /\ [][Next]_vars

\* A validation run alone.
NextValidation ==
    \/ ParityPlotStart
    \/ ParityPlotRow
    \/ ParityPlotFigure
    \/ ParityPlotMetrics

\* The steps of NextValidation as pc and i show them: each disjunct has the
\* guard of one action, whose body always has an outcome, and holds of every
\* step of that action (C15 checks that it does).
ValidationStep ==
    \/ pc = "idle" /\ pc' = "loop" /\ i' = 1
    \/ pc = "loop" /\ i <= Len(filtered_df) /\ pc' = pc /\ i' = i + 1
    \/ pc = "loop" /\ i > Len(filtered_df) /\ pc' \in {"metrics", "done"}
           /\ i' = i
    \/ pc = "metrics" /\ pc' = "done" /\ i' = i

\* The interpreter always takes the next step of a call that has one, hence
\* the weak fairness.
SpecValidation ==
    Init /\ [][NextValidation]_vars /\ WF_<<pc, i>>(ValidationStep)

---------------------------------------------------------------------------
(* The loop of ParityPlot with its rows taken in any order: once the loop  *)
(* of the code has run, workers run the body of the loop (lines 143-158)   *)
(* for one row each, any row not yet taken, on the same filtered_df.       *)

\* The rows of rows at the positions in keep, in order.
RECURSIVE RowsAt(_, _)
RowsAt(rows, keep) ==
    IF rows = <<>> THEN <<>>
    ELSE LET front == RowsAt(SubSeq(rows, 1, Len(rows) - 1), keep)
         IN  IF Len(rows) \in keep THEN Append(front, rows[Len(rows)])
             ELSE front

\* Faulty variant of the worker: the pool is taken from the rows no worker
\* has processed yet, a frame the workers share and shrink.
WorkerRow_RemainingPool ==
    /\ call.fn = "ParityPlot"
    /\ pc = "loop"
    /\ i > Len(filtered_df)
    /\ \E j \in (1..Len(filtered_df)) \ worker_done :
       \E on_empty \in ApplyEmptyChoices(apply_empty,
              Matching(DropIndex(RowsAt(filtered_df,
                                        (1..Len(filtered_df)) \ worker_done),
                                 filtered_df[j].idx))) :
       LET row == filtered_df[j]
           coords == <<row.latitude, row.longitude>>
           df_temp == DropIndex(RowsAt(filtered_df,
                                       (1..Len(filtered_df)) \ worker_done),
                                row.idx)
       IN  \E r \in {PredictPollutantWith(df_temp, coords, call.n_sensors,
                                          QueryKey.parameter, QueryKey.year,
                                          QueryKey.month, QueryKey.day,
                                          QueryKey.hour, DefaultPower,
                                          on_empty)} :
           /\ worker_done' = worker_done \cup {j}
           /\ apply_empty' = IF r.matches = 0 THEN on_empty ELSE apply_empty
           /\ IF r.raised
              THEN /\ worker_skipped' = worker_skipped \cup {row.idx}
                   /\ UNCHANGED worker_pairs
              ELSE /\ worker_pairs' =
                          worker_pairs (+) SetToBag({<<row.value, r.estimate>>})
                   /\ UNCHANGED worker_skipped
    /\ UNCHANGED <<df, pc, call, filtered_df, i, true_vals, predicted_vals,
                   skipped, nearest, matches, outcome, retval, metrics>>
    /\ UNCHANGED estimator_vars
    /\ UNCHANGED collector_vars

\* Lines 143-158 for the row at position j, any j not yet processed.
WorkerRow ==
    /\ call.fn = "ParityPlot"
    /\ pc = "loop"
    /\ i > Len(filtered_df)
    /\ \E j \in (1..Len(filtered_df)) \ worker_done :
       \E on_empty \in ApplyEmptyChoices(apply_empty,
              Matching(DropIndex(filtered_df, filtered_df[j].idx))) :
       LET row == filtered_df[j]
           coords == <<row.latitude, row.longitude>>
           df_temp == DropIndex(filtered_df, row.idx)
       IN  \E r \in {PredictPollutantWith(df_temp, coords, call.n_sensors,
                                          QueryKey.parameter, QueryKey.year,
                                          QueryKey.month, QueryKey.day,
                                          QueryKey.hour, DefaultPower,
                                          on_empty)} :
           /\ worker_done' = worker_done \cup {j}
           /\ apply_empty' = IF r.matches = 0 THEN on_empty ELSE apply_empty
           /\ IF r.raised
              THEN /\ worker_skipped' = worker_skipped \cup {row.idx}
                   /\ UNCHANGED worker_pairs
              ELSE /\ worker_pairs' =
                          worker_pairs (+) SetToBag({<<row.value, r.estimate>>})
                   /\ UNCHANGED worker_skipped
    /\ UNCHANGED <<df, pc, call, filtered_df, i, true_vals, predicted_vals,
                   skipped, nearest, matches, outcome, retval, metrics>>
    /\ UNCHANGED estimator_vars
    /\ UNCHANGED collector_vars

NextAnyOrder ==
    \/ ParityPlotStart
    \/ ParityPlotRow
    \/ WorkerRow

SpecAnyOrder == Init /\ [][NextAnyOrder]_vars

---------------------------------------------------------------------------
(* The collector: GetMarylandData calling GetHourlyData for each           *)
(* coordinate of its grid.  A row is the fields drop_duplicates compares   *)
(* that vary here: the value and the decoded time of a measurement.        *)

\* period.datetimeFrom.utc of a measurement, as the numbers of
\* '%Y-%m-%dT%H:%M:%SZ'; NoUtc is the default '' of a missing field.
Utcs == {<<2020, 1, 1, 8, 0, 0>>, <<2020, 1, 1, 9, 0, 0>>}
NoUtc == <<>>

\* datetime.strptime(datetime_from, ...) and the fields read from it.
strptime(utc) ==
    [year |-> utc[1], month |-> utc[2], day |-> utc[3], hour |-> utc[4]]

Measurements == [value : {1}, utc : Utcs \cup {NoUtc}]

\* The measurements of one coordinate, over its locations and sensors.
MeasurementLists == UNION {[1..n -> Measurements] : n \in 0..MaxMeasurements}

\* The locations request: requests.get raises, answers with another status
\* than 200, or answers 200.
Responses == {"error", "non200", "ok"}

\* md_df.drop_duplicates(subset=[...], keep="first").
RECURSIVE DropDuplicates(_)
DropDuplicates(rows) ==
    IF rows = <<>> THEN <<>>
    ELSE LET front == DropDuplicates(SubSeq(rows, 1, Len(rows) - 1))
             last == rows[Len(rows)]
         IN  IF \E k \in 1..Len(front) : front[k] = last THEN front
             ELSE Append(front, last)

InitCollect ==
    /\ df = <<>>
    /\ apply_empty = "unknown"
    /\ pc = "grid"
    /\ call = NoCall
    /\ filtered_df = <<>>
    /\ i = 0
    /\ true_vals = <<>>
    /\ predicted_vals = <<>>
    /\ skipped = <<>>
    /\ nearest = <<>>
    /\ matches = 0
    /\ outcome = "none"
    /\ retval = None
    /\ metrics = NoMetrics
    /\ EstimatorIdle
    /\ WorkersIdle
    /\ coord = 1
    /\ md_df = <<>>
    /\ visited = <<>>
    /\ skipped_coords = {}
    /\ md_outcome = "none"
    /\ measurements = <<>>
    /\ all_data = <<>>
    /\ data_time = Unbound
    /\ all_from = <<>>

\* GetMarylandData line 331 and GetHourlyData lines 172-229: the call for
\* the next coordinate, up to the measurements.  An exception of requests
\* is caught at line 334; exit() raises SystemExit, which is no Exception
\* and ends GetMarylandData.
GetHourlyDataRequest ==
    /\ pc = "grid"
    /\ coord <= MaxCoordinates
    /\ visited' = Append(visited, coord)
    /\ \E response \in Responses :
        \/ /\ response = "error"
           /\ skipped_coords' =
                  skipped_coords \cup {[coord |-> coord, error |-> "requests"]}
           /\ coord' = coord + 1
           /\ UNCHANGED <<pc, md_outcome, measurements>>
        \/ /\ response = "non200"
           /\ md_outcome' = "exited"
           /\ pc' = "grid_done"
           /\ UNCHANGED <<coord, skipped_coords, measurements>>
        \/ /\ response = "ok"
           /\ measurements' \in MeasurementLists
           /\ pc' = "hourly"
           /\ UNCHANGED <<coord, skipped_coords, md_outcome>>
    /\ UNCHANGED <<md_df, all_data, data_time, all_from>>
    /\ UNCHANGED <<pipeline_vars, estimator_vars, worker_vars>>

\* GetHourlyData lines 231-271 for one measurement.  Without the utc field
\* data_year .. data_hour keep what an earlier measurement left in them;
\* unassigned, line 267 raises UnboundLocalError, caught at line 334.
ProcessMeasurement ==
    /\ pc = "hourly"
    /\ measurements # <<>>
    /\ LET measurement == Head(measurements)
           datetime_from == measurement.utc
           bound == IF datetime_from # NoUtc THEN strptime(datetime_from)
                    ELSE data_time
       IN  IF bound = Unbound
           THEN /\ skipped_coords' = skipped_coords \cup
                       {[coord |-> coord, error |-> "UnboundLocalError"]}
                /\ coord' = coord + 1
                /\ pc' = "grid"
                /\ measurements' = <<>>
                /\ all_data' = <<>>
                /\ all_from' = <<>>
                /\ UNCHANGED data_time
           ELSE /\ data_time' = bound
                /\ all_data' = Append(all_data,
                                      [value |-> measurement.value,
                                       year |-> bound.year,
                                       month |-> bound.month,
                                       day |-> bound.day,
                                       hour |-> bound.hour])
                /\ all_from' = Append(all_from, datetime_from)
                /\ measurements' = Tail(measurements)
                /\ UNCHANGED <<coord, pc, skipped_coords>>
    /\ UNCHANGED <<md_df, visited, md_outcome>>
    /\ UNCHANGED <<pipeline_vars, estimator_vars, worker_vars>>

\* GetHourlyData lines 273-275 and GetMarylandData lines 332-339: the frame
\* of all_data is returned and, unless empty, appended to md_df.
GetHourlyDataReturn ==
    /\ pc = "hourly"
    /\ measurements = <<>>
    /\ md_df' = md_df \o all_data
    /\ coord' = coord + 1
    /\ pc' = "grid"
    /\ all_data' = <<>>
    /\ all_from' = <<>>
    /\ data_time' = Unbound
    /\ UNCHANGED <<visited, skipped_coords, md_outcome, measurements>>
    /\ UNCHANGED <<pipeline_vars, estimator_vars, worker_vars>>

\* GetMarylandData lines 342-348, after the last coordinate.
GetMarylandDataReturn ==
    /\ pc = "grid"
    /\ coord > MaxCoordinates
    /\ md_df' = DropDuplicates(md_df)
    /\ md_outcome' = "returned"
    /\ pc' = "grid_done"
    /\ UNCHANGED <<coord, visited, skipped_coords, measurements, all_data,
                   data_time, all_from>>
    /\ UNCHANGED <<pipeline_vars, estimator_vars, worker_vars>>

NextCollect ==
    \/ GetHourlyDataRequest
    \/ ProcessMeasurement
    \/ GetHourlyDataReturn
    \/ GetMarylandDataReturn

SpecCollect == InitCollect /\ [][NextCollect]_vars

---------------------------------------------------------------------------
(* Properties of the single-point estimate and of the validation run.      *)

PredictDone == call.fn = "PredictPollutant" /\ pc = "done"
ParityDone == call.fn = "ParityPlot" /\ pc = "done"

\* PredictPollutant has run, directly or for a row of the loop.
Predicted == PredictDone \/ (call.fn = "ParityPlot" /\ i > 1)

\* The row equals the query on pollutant, year, month, day and hour.
MatchesQuery(row) ==
    <<row.parameter, row.year, row.month, row.day, row.hour>> =
        <<QueryKey.parameter, QueryKey.year, QueryKey.month, QueryKey.day,
          QueryKey.hour>>

QueryRows == FilterRows(df, QueryKey.parameter, QueryKey.year,
                        QueryKey.month, QueryKey.day, QueryKey.hour)

\* C1: the selection of every PredictPollutant call holds at most n_sensors
\* rows, each equal to the query on pollutant, year, month, day and hour and
\* carrying its distance to the target, in non-decreasing order of distance.
C1_SelectNearest ==
    Predicted =>
        /\ Len(nearest) <= call.n_sensors
        /\ \A j \in 1..Len(nearest) :
            /\ MatchesQuery(nearest[j])
            /\ nearest[j].distance_km =
                   compute_distance(call.target_location, nearest[j])
        /\ \A j, k \in 1..Len(nearest) :
            j < k => FLessEq(nearest[j].distance_km, nearest[k].distance_km)

\* One of two matching rows is selected, the later and nearer one, from a
\* dataset that also holds a row missing the query.
C1_Witness ==
    /\ PredictDone
    /\ Len(df) = 3
    /\ Len(QueryRows) = 2
    /\ call.n_sensors = 1
    /\ Len(nearest) = 1
    /\ FLess(nearest[1].distance_km,
             compute_distance(call.target_location, QueryRows[1]))

\* C2: a single-point estimate whose filter matches no row ends in a
\* failure and hands no value to its caller.
C2_NoMatchFails ==
    (PredictDone /\ Len(QueryRows) = 0) => (outcome = "raised" /\ retval = None)

\* C3 (its last clause): a single-point estimate with a selected observation
\* at distance zero never returns infinity or NaN as the estimate.
C3_ZeroDistanceFails ==
    (PredictDone /\ \E j \in 1..Len(nearest) : nearest[j].distance_km = Zero)
        => ~(outcome = "returned" /\ ~IsFinite(retval))

\* The estimate of row j of the loop can be resolved: its pool is not empty
\* and no selected peer lies at distance zero.
Resolvable(j) ==
    LET row == filtered_df[j]
        pool == DropIndex(filtered_df, row.idx)
        sel == nsmallest(WithDistance(pool, <<row.latitude, row.longitude>>),
                         call.n_sensors)
    IN  /\ pool # <<>>
        /\ \A k \in 1..Len(sel) : sel[k].distance_km # Zero

ResolvableRows == {j \in 1..Len(filtered_df) : Resolvable(j)}

\* C4: the unresolvable rows of a validation run do not make the run fail:
\* with at least one resolvable row the run computes the metrics and returns.
\* Stated for the pandas that raises on an empty pool, where the except
\* clause of the loop does skip such a row.
C4_UnresolvableRowSkipped ==
    (ParityDone /\ apply_empty # "series" /\ ResolvableRows # {})
        => (outcome = "returned" /\ metrics.computed)

\* C5: a validation run that collected no pair, and a run over a dataset
\* with exactly one matching row, ends in a failure without any metric.
C5_EmptyValidationSet ==
    (ParityDone /\ (true_vals = <<>> \/ Len(filtered_df) = 1))
        => (outcome = "raised" /\ ~metrics.computed)

\* A run over one matching row among others, skipped for want of peers.
C5_Witness ==
    /\ ParityDone
    /\ Len(df) > 1
    /\ Len(filtered_df) = 1
    /\ skipped # <<>>
    /\ true_vals = <<>>
    /\ outcome = "raised"

\* C6 as stated: a completed validation run hands the metrics and the
\* number of skipped rows back to its caller.
C6_ReturnsMetrics ==
    (ParityDone /\ outcome = "returned") => retval # None

\* C6, amended: the loop leaves pairs + skipped rows = matching rows; a
\* completed run has computed (and printed) the metrics and returns None.
C6_PrintsMetrics ==
    /\ (call.fn = "ParityPlot" /\ pc \in {"metrics", "done"})
        => /\ Len(true_vals) = Len(predicted_vals)
           /\ Len(true_vals) + Len(skipped) = Len(filtered_df)
    /\ (ParityDone /\ outcome = "returned")
        => (metrics.computed /\ retval = None)

\* A completed run over three matching rows.
C6_Witness ==
    /\ ParityDone
    /\ outcome = "returned"
    /\ Len(true_vals) = 3

\* C7: the selection holds min(n_sensors, matching rows) rows, and a
\* single-point estimate with at least one matching row returns a value.
C7_GracefulDegradation ==
    /\ Predicted => Len(nearest) = Min2(call.n_sensors, matches)
    /\ PredictDone => matches = Len(QueryRows)
    /\ (PredictDone /\ matches >= 1)
        => (outcome = "returned" /\ retval # None)

\* Two sensors requested, one matching row, an estimate returned.
C7_Witness ==
    /\ PredictDone
    /\ call.n_sensors = 2
    /\ Len(QueryRows) = 1
    /\ Len(nearest) = 1
    /\ outcome = "returned"
    /\ IsFinite(retval)

---------------------------------------------------------------------------
(* The estimator alone: idw_prediction applied to selected observations    *)
(* given directly, and to the same observations with every distance        *)
(* multiplied by scale.                                                    *)

EstValues == {-3, 0, 3, 5}
EstDistances == {1, 3, 7, 32}

\* 2, 3 and 5/8 (kilometres to miles, roughly).
Scales == {FromInt(2), FromInt(3), Round(5, 8, 0)}

ScoredObservations ==
    {[value |-> FromInt(v), distance_km |-> FromInt(d)] :
        v \in EstValues, d \in EstDistances}

Rescaled(rows, c) ==
    [j \in 1..Len(rows) |->
        [rows[j] EXCEPT !.distance_km = FMul(rows[j].distance_km, c)]]

InitEst ==
    /\ df = <<>>
    /\ apply_empty = "unknown"
    /\ pc = "est_start"
    /\ call = NoCall
    /\ filtered_df = <<>>
    /\ i = 0
    /\ true_vals = <<>>
    /\ predicted_vals = <<>>
    /\ skipped = <<>>
    /\ nearest = <<>>
    /\ matches = 0
    /\ outcome = "none"
    /\ retval = None
    /\ metrics = NoMetrics
    /\ obs \in UNION {[1..n -> ScoredObservations] : n \in 1..MaxObs}
    /\ power \in 1..MaxPower
    /\ scale \in Scales
    /\ estimate = None
    /\ estimate_scaled = None
    /\ WorkersIdle
    /\ CollectorIdle

Estimate ==
    /\ pc = "est_start"
    /\ estimate' = idw_prediction(obs, power)
    /\ pc' = "est_done"
    /\ UNCHANGED <<obs, power, scale, estimate_scaled>>
    /\ UNCHANGED pipeline_vars
    /\ UNCHANGED <<worker_vars, collector_vars>>

EstimateScaled ==
    /\ pc = "est_done"
    /\ estimate_scaled' = idw_prediction(Rescaled(obs, scale), power)
    /\ pc' = "est_scaled"
    /\ UNCHANGED <<obs, power, scale, estimate>>
    /\ UNCHANGED pipeline_vars
    /\ UNCHANGED <<worker_vars, collector_vars>>

NextEst == Estimate \/ EstimateScaled

SpecEst == InitEst /\ [][NextEst]_vars

---------------------------------------------------------------------------
(* Properties of the estimator.  They compare floating-point numbers       *)
(* exactly, as the integers they are multiples of.                         *)

Estimated == pc \in {"est_done", "est_scaled"}

\* The least exponent among the numbers xs that are not zero.
RECURSIVE MinExp(_)
MinExp(xs) ==
    IF xs = <<>> THEN 0
    ELSE LET rest == Tail(xs)
             x == Head(xs)
         IN  IF x.m = 0 THEN MinExp(rest)
             ELSE IF \A j \in 1..Len(rest) : rest[j].m = 0 THEN x.e
             ELSE Min2(x.e, MinExp(rest))

\* x as a multiple of 2^e0.
Scaled(x, e0) == IF x.m = 0 THEN 0 ELSE x.m * 2 ^ (x.e - e0)

ObsValues == [j \in 1..Len(obs) |-> obs[j].value]

\* a <= b + (K u / (1 - K u)) M and b <= a + (K u / (1 - K u)) M, where
\* u = 2^-PrecBits is the unit roundoff and M >= 0.
WithinRounding(a, b, M, K) ==
    /\ IsFinite(a) /\ IsFinite(b)
    /\ K < MantHi
    /\ \/ a = b
       \/ LET e0 == MinExp(<<a, b, M>>)
          IN  Abs(Scaled(a, e0) - Scaled(b, e0)) * (MantHi - K)
                  <= K * Scaled(M, e0)

\* a <= b + (K u / (1 - K u)) M.
AtMostWithinRounding(a, b, M, K) ==
    /\ IsFinite(a) /\ IsFinite(b)
    /\ K < MantHi
    /\ \/ FLessEq(a, b)
       \/ LET e0 == MinExp(<<a, b, M>>)
          IN  (Scaled(a, e0) - Scaled(b, e0)) * (MantHi - K)
                  <= K * Scaled(M, e0)

RECURSIVE MaxOf(_)
MaxOf(xs) ==
    IF Len(xs) = 1 THEN xs[1]
    ELSE LET r == MaxOf(Tail(xs))
         IN  IF FLess(r, xs[1]) THEN xs[1] ELSE r

RECURSIVE MinOf(_)
MinOf(xs) ==
    IF Len(xs) = 1 THEN xs[1]
    ELSE LET r == MinOf(Tail(xs))
         IN  IF FLess(xs[1], r) THEN xs[1] ELSE r

\* The largest magnitude among the observed values.
MaxAbsValue == MaxOf([j \in 1..Len(obs) |-> FAbs(obs[j].value)])

AllSameValue == \A j \in 1..Len(obs) : obs[j].value = obs[1].value

\* C8 as stated: when every selected observation reports the same value v
\* (one observation included), the estimate equals v.
C8_IdenticalValues ==
    (Estimated /\ AllSameValue) => estimate = obs[1].value

\* C8, amended: the estimate of n observations that all report v equals v up
\* to rounding: |estimate - v| <= (2n u / (1 - 2n u)) |v|.
C8_IdenticalValuesRounded ==
    (Estimated /\ AllSameValue)
        => WithinRounding(estimate, obs[1].value, FAbs(obs[1].value),
                          2 * Len(obs))

\* Two observations of one value at different distances, the estimate off
\* that value by a rounding error.
C8_Witness ==
    /\ Estimated
    /\ Len(obs) = 2
    /\ AllSameValue
    /\ obs[1].distance_km # obs[2].distance_km
    /\ estimate # obs[1].value
    /\ IsFinite(estimate)

\* C9 as stated: the estimate lies between the least and the largest value,
\* strictly for two observations with different values.
C9_Interior ==
    Estimated =>
        /\ FLessEq(MinOf(ObsValues), estimate)
        /\ FLessEq(estimate, MaxOf(ObsValues))
        /\ (Len(obs) = 2 /\ obs[1].value # obs[2].value)
            => /\ FLess(MinOf(ObsValues), estimate)
               /\ FLess(estimate, MaxOf(ObsValues))

\* C9, amended: the estimate of n observations lies between the least and
\* the largest value up to rounding: min - g M <= estimate <= max + g M with
\* g = 2n u / (1 - 2n u) and M the largest magnitude of a value.
C9_InteriorRounded ==
    Estimated =>
        /\ AtMostWithinRounding(MinOf(ObsValues), estimate, MaxAbsValue,
                                2 * Len(obs))
        /\ AtMostWithinRounding(estimate, MaxOf(ObsValues), MaxAbsValue,
                                2 * Len(obs))

\* Two observations with different values, the estimate strictly between.
C9_Witness ==
    /\ Estimated
    /\ Len(obs) = 2
    /\ FLess(obs[1].value, estimate)
    /\ FLess(estimate, obs[2].value)
    /\ obs[1].distance_km # obs[2].distance_km

IsPowerOfTwo(x) == IsFinite(x) /\ x.m = MantLo

\* C10 as stated: multiplying every distance by the same c > 0 leaves the
\* estimate unchanged.
C10_ScaleInvariant ==
    pc = "est_scaled" => estimate_scaled = estimate

\* C10, amended: multiplying every distance by c leaves the estimate
\* unchanged when c is a power of two, and otherwise changes it by a rounding
\* error at most: by (K u / (1 - K u)) M with K = 12n + 4 power + 16.
C10_ScaleInvariantRounded ==
    pc = "est_scaled" =>
        /\ IsPowerOfTwo(scale) => estimate_scaled = estimate
        /\ WithinRounding(estimate_scaled, estimate, MaxAbsValue,
                          12 * Len(obs) + 4 * power + 16)

\* Two observations with different values and distances, distances doubled.
C10_Witness ==
    /\ pc = "est_scaled"
    /\ Len(obs) = 2
    /\ scale = FromInt(2)
    /\ obs[1].value # obs[2].value
    /\ obs[1].distance_km # obs[2].distance_km
    /\ estimate_scaled = estimate
    /\ estimate # Zero

---------------------------------------------------------------------------
(* Further properties of the single-point estimate and of the validation   *)
(* run.                                                                    *)

\* C11: no step of a single-point estimate or of a validation run changes
\* the dataset it was given: same rows, same order, same fields, and no
\* row ever carries a distance_km field.
C11_InputUnchanged ==
    /\ [](\A j \in 1..Len(df) : "distance_km" \notin DOMAIN df[j])
    /\ [][df' = df]_vars

\* A finished estimate that selected rows, with their distances, from a
\* dataset of MaxRows rows.
C11_Witness ==
    /\ pc = "done"
    /\ outcome = "returned"
    /\ Len(df) = MaxRows
    /\ nearest # <<>>
    /\ \A j \in 1..Len(nearest) : "distance_km" \in DOMAIN nearest[j]

\* C12: the pool a row of the loop is predicted from holds every other
\* matching row, matches - 1 rows, whatever the labels of the rows.
C12_PoolExcludesOnlyRow ==
    (call.fn = "ParityPlot" /\ i > 1) => matches = Len(filtered_df) - 1

\* The rows the latest PredictPollutant call chose from, with the distances
\* to its target: the matching rows of df, or the pool of the loop's row.
LatestPool ==
    WithDistance(IF PredictDone THEN QueryRows
                 ELSE DropIndex(filtered_df, filtered_df[i - 1].idx),
                 call.target_location)

\* nearest is the rows of pool at the positions at[1], at[2], ...; rows at
\* the same distance are in the order of the pool, and a row left out comes
\* after every chosen row at its distance.
KeepsFirstAmongEquals(pool, at) ==
    /\ \A j \in 1..Len(nearest) : nearest[j] = pool[at[j]]
    /\ \A j, k \in 1..Len(nearest) :
        /\ j # k => at[j] # at[k]
        /\ (j < k /\ nearest[j].distance_km = nearest[k].distance_km)
            => at[j] < at[k]
    /\ \A p \in 1..Len(pool), j \in 1..Len(nearest) :
        ((\A k \in 1..Len(nearest) : at[k] # p)
            /\ pool[p].distance_km = nearest[j].distance_km)
            => at[j] < p

\* C13: of matching rows at the same distance from the target the
\* selection keeps the first of the dataset, in the order of the dataset.
C13_TiesKeepFirst ==
    (Predicted /\ ~(outcome = "raised" /\ PredictDone)) =>
        \E at \in [1..Len(nearest) -> 1..Len(LatestPool)] :
            KeepsFirstAmongEquals(LatestPool, at)

\* Two rows with different values at the same distance from the target, one
\* sensor asked for: the first of the two is the one selected.
C13_Witness ==
    /\ PredictDone
    /\ call.n_sensors = 1
    /\ Len(QueryRows) >= 2
    /\ QueryRows[1].longitude = QueryRows[2].longitude
    /\ QueryRows[1].value # QueryRows[2].value
    /\ Len(nearest) = 1
    /\ nearest[1].value = QueryRows[1].value

\* The pairs (ts[1], ps[1]), (ts[2], ps[2]), ... as a bag.
RECURSIVE BagOfPairs(_, _)
BagOfPairs(ts, ps) ==
    IF ts = <<>> THEN EmptyBag
    ELSE BagOfPairs(SubSeq(ts, 1, Len(ts) - 1), SubSeq(ps, 1, Len(ps) - 1))
             (+) SetToBag({<<ts[Len(ts)], ps[Len(ps)]>>})

AllRowsTaken ==
    /\ call.fn = "ParityPlot"
    /\ i > Len(filtered_df)
    /\ worker_done = 1..Len(filtered_df)

C15_Terminates ==
    /\ [](call.fn = "ParityPlot" =>
            /\ i <= Len(filtered_df) + 1
            /\ Len(true_vals) + Len(skipped) = i - 1)
    /\ [][ValidationStep]_vars
    /\ <>(/\ ParityDone
          /\ i = Len(filtered_df) + 1
          /\ \/ outcome = "raised"
             \/ outcome = "returned" /\ metrics.computed)

\* A run that has ended after its third row.
C15_Witness ==
    /\ ParityDone
    /\ i = 4
    /\ Len(true_vals) + Len(skipped) = 3

\* C16: every pair the validation loop has recorded holds a finite
\* prediction.
C16_PairsFinite ==
    call.fn = "ParityPlot" =>
        \A k \in 1..Len(predicted_vals) : IsFinite(predicted_vals[k])

---------------------------------------------------------------------------
(* Properties of the collector.                                            *)

\* C17: whatever fails at a coordinate, GetMarylandData goes on: it ends by
\* returning its table, having called GetHourlyData once for every
\* coordinate of the grid, in order.
C17_FailureSkipsCoordinate ==
    pc = "grid_done" =>
        /\ md_outcome = "returned"
        /\ visited = [c \in 1..MaxCoordinates |-> c]

\* C18 (its first clause): every record of all_data is from a measurement
\* with a utc time and carries the year, month, day and hour of that time.
C18_OwnTimestamp ==
    \A k \in 1..Len(all_data) :
        /\ all_from[k] # NoUtc
        /\ <<all_data[k].year, all_data[k].month, all_data[k].day,
              all_data[k].hour>> = SubSeq(all_from[k], 1, 4)

=============================================================================
